---- MODULE Spec2Model ----
(***************************************************************************)
(* A model of efronlicht/numbertheory (src/src/primes.rs): the prime base  *)
(* `Primes` (a Vec<u64>), the factorization `Factors` (a BTreeMap<u64,u8>) *)
(* and the functions that build and combine them.                          *)
(*                                                                         *)
(* A Primes value is a sequence of integers.  A Factors value is a         *)
(* function from its keys (the primes stored) to their exponents; the      *)
(* empty map is the function with the empty domain.  An Option<T> is a     *)
(* record with a field `some`.                                             *)
(*                                                                         *)
(* Every u64 the specifications below compute stays far under 2^64, so     *)
(* u64 arithmetic is plain integer arithmetic here.  The u8 exponents of   *)
(* a Factors keep their width: an addition that leaves 0..255 panics in a  *)
(* build with overflow checks (debug) and wraps modulo 256 in one without  *)
(* (release).                                                              *)
(***************************************************************************)
EXTENDS Integers, Sequences, FiniteSets

\* ------------------------------------------------------------------ bounds

\* Primes::under is called with a limit in 0..MaxLimit.
MaxLimit == 13
\* Primes::first_n is called with a size in 0..MaxCount.
MaxCount == 6
\* Factors::of is called with n in 0..MaxN.
MaxN == 12
\* Primes::gcd and Primes::lcm are called with operands in 0..MaxArg.
MaxArg == 10

\* The algebra caller builds its base with a limit in 0..MaxAlgebraLimit or
\* a size in 0..MaxAlgebraCount, and factorizes n in 0..MaxAlgebraN or the
\* large power of two 2^LargeExponent.
MaxAlgebraLimit == 4
MaxAlgebraCount == 2
MaxAlgebraN == 3
LargeExponent == 16
\* The algebra caller assigns its locals at most MaxSteps times.
MaxSteps == 5
\* Primes::from_raw_vec is given a vector of at most MaxRawLen entries, each
\* in 0..MaxRawEntry, and Factors::of is then called with n in 0..MaxRawN.
MaxRawLen == 2
MaxRawEntry == 4
MaxRawN == 4

\* The number of values of a u8 (the exponent type of Factors).
U8Size == 256

\* ------------------------------------------------------- values and helpers

\* BTreeMap::new()
EmptyFactors == [p \in {} |-> 0]

\* Option::None / Option::Some(f) of a Factors
NoFactors == [some |-> FALSE, f |-> EmptyFactors]
SomeFactors(f) == [some |-> TRUE, f |-> f]

\* Option::None / Option::Some(v) of a u64
NoU64 == [some |-> FALSE, v |-> 0]
SomeU64(v) == [some |-> TRUE, v |-> v]

\* BTreeMap::insert(k, v): the map with k bound to v
Insert(f, k, v) == [q \in (DOMAIN f) \cup {k} |-> IF q = k THEN v ELSE f[q]]

\* The least key of a non-empty set of keys: a BTreeMap is iterated in
\* increasing key order.
FirstKey(S) == CHOOSE k \in S : \A q \in S : k <= q

Min2(x, y) == IF x <= y THEN x ELSE y
Max2(x, y) == IF x >= y THEN x ELSE y

\* ------------------------------------------------------------------ Primes

\* The inner `for p in &primes` of the two sieves: no prime found so far
\* divides n.
NoneDivides(primes, n) == \A i \in 1..Len(primes) : n % primes[i] # 0

RECURSIVE UnderLoop(_, _, _)
\* `while n < max { ...; n += 2 }` of Primes::under
UnderLoop(primes, n, max) ==
    IF n < max
    THEN UnderLoop(IF NoneDivides(primes, n) THEN Append(primes, n) ELSE primes,
                   n + 2, max)
    ELSE primes

\* Primes::under(max)
under(max) == IF max < 2 THEN << >> ELSE UnderLoop(<<2>>, 3, max)

RECURSIVE FirstNLoop(_, _, _)
\* `while primes.len() < size { ...; m += 2 }` of Primes::first_n
FirstNLoop(primes, m, size) ==
    IF Len(primes) < size
    THEN FirstNLoop(IF NoneDivides(primes, m) THEN Append(primes, m) ELSE primes,
                    m + 2, size)
    ELSE primes

\* Primes::first_n(size)
first_n(size) == IF size = 0 THEN << >> ELSE FirstNLoop(<<2>>, 3, size)

\* ----------------------------------------------------------------- Factors

\* DivideOut with `if` for `while`: p is divided out once at most.
DivideOut_Once(n, p, count) ==
    IF n % p = 0
    THEN [n |-> n \div p, count |-> count + 1]
    ELSE [n |-> n, count |-> count]

RECURSIVE DivideOut(_, _, _)
\* `while n % p == 0 { *factors.entry(p).or_insert(0) += 1; n /= p; }`:
\* the remainder left and the number of divisions made (p >= 2, n >= 1).
DivideOut(n, p, count) ==
    IF n % p = 0
    THEN DivideOut(n \div p, p, count + 1)
    ELSE [n |-> n, count |-> count]

RECURSIVE OfLoop(_, _, _, _)
\* `for p in &primes.0 { ... }` of Factors::of, from the i-th prime on, and
\* the `None` after it.
OfLoop(n, primes, i, factors) ==
    IF i > Len(primes)
    THEN NoFactors
    ELSE LET p == primes[i]
             d == DivideOut(n, p, 0)
             fs == IF d.count > 0 THEN Insert(factors, p, d.count) ELSE factors
         IN  IF p > d.n THEN SomeFactors(fs) ELSE OfLoop(d.n, primes, i + 1, fs)

\* Factors::of without the arm `1 => Some(Factors(factors))`.
of_WithoutArmForOne(n, primes) ==
    IF n = 0 THEN NoFactors
    ELSE OfLoop(n, primes, 1, EmptyFactors)

\* Factors::of(n, primes), for a base whose entries are all >= 2
of(n, primes) ==
    IF n = 0 THEN NoFactors
    ELSE IF n = 1 THEN SomeFactors(EmptyFactors)
    ELSE OfLoop(n, primes, 1, EmptyFactors)

\* Factors::is_empty
is_empty(f) == DOMAIN f = {}

\* Factors::get(k)
get(f, k) == IF k \in DOMAIN f THEN f[k] ELSE 0

\* Factors::is_subset(self, other)
is_subset(self, other) ==
    ~ \E base \in DOMAIN self : get(other, base) <= self[base]

\* Factors::is_superset(self, other)
is_superset(self, other) == is_subset(other, self)

RECURSIVE TotientFold(_, _, _)
\* `for (p, exp) in &self.0 { totient *= p.pow(exp) - p.pow(exp - 1) }`
TotientFold(f, keys, acc) ==
    IF keys = {} THEN acc
    ELSE LET p == FirstKey(keys)
         IN  TotientFold(f, keys \ {p}, acc * (p ^ f[p] - p ^ (f[p] - 1)))

\* Factors::totient without the early `return 0` for the empty map.
totient_WithoutEmptyCase(f) == TotientFold(f, DOMAIN f, 1)

\* Factors::totient
totient(f) == IF is_empty(f) THEN 0 ELSE TotientFold(f, DOMAIN f, 1)

RECURSIVE DivisorFold(_, _, _)
\* `for (_, exp) in &self.0 { divisors *= *exp as u64 + 1 }`
DivisorFold(f, keys, acc) ==
    IF keys = {} THEN acc
    ELSE LET p == FirstKey(keys)
         IN  DivisorFold(f, keys \ {p}, acc * (f[p] + 1))

\* Factors::divisor_count
divisor_count(f) == DivisorFold(f, DOMAIN f, 1)

RECURSIVE PowerFold(_, _, _)
\* `fold(1, |n, (base, exp)| n * base.pow(exp as u32))`, also the loops of
\* Primes::lcm and Primes::gcd over the entries of a Factors
PowerFold(f, keys, acc) ==
    IF keys = {} THEN acc
    ELSE LET p == FirstKey(keys)
         IN  PowerFold(f, keys \ {p}, acc * (p ^ f[p]))

\* impl Into<u64> for Factors
into(f) == PowerFold(f, DOMAIN f, 1)

\* Factors::mul(self, rhs) as a build without overflow checks computes it:
\* the u8 sum wraps.
mul(self, rhs) ==
    [k \in (DOMAIN self) \cup (DOMAIN rhs) |->
        IF k \in DOMAIN rhs
        THEN ((IF k \in DOMAIN self THEN self[k] ELSE 0) + rhs[k]) % U8Size
        ELSE self[k]]

\* Whether a `+= v` of Factors::mul leaves the u8 range: a build with
\* overflow checks panics there.
mul_overflows(self, rhs) ==
    \E k \in DOMAIN rhs : get(self, k) + rhs[k] >= U8Size

\* Factors::union that overwrites a shared key with b's exponent instead of
\* taking the maximum.
union_Overwriting(self, b) ==
    [k \in (DOMAIN self) \cup (DOMAIN b) |->
        IF k \in DOMAIN b THEN b[k] ELSE self[k]]

\* Factors::union(self, b)
union(self, b) ==
    [k \in (DOMAIN self) \cup (DOMAIN b) |->
        IF k \notin DOMAIN b THEN self[k]
        ELSE IF k \notin DOMAIN self THEN b[k]
        ELSE Max2(self[k], b[k])]

\* Factors::intersection without the `contains_key` test: a key b lacks is
\* stored with b's exponent read as 0.
intersection_WithoutKeyTest(self, b) ==
    [k \in DOMAIN self |-> Min2(self[k], get(b, k))]

\* Factors::intersection(self, b)
intersection(self, b) ==
    [k \in {q \in DOMAIN self : q \in DOMAIN b} |-> Min2(self[k], b[k])]

\* ------------------------------------------------------- Primes::lcm / gcd

\* Primes::max
max(primes) ==
    IF Len(primes) = 0 THEN NoU64 ELSE SomeU64(primes[Len(primes)])

\* Primes::lcm with the arms for 1 tried before the arms for 0.
lcm_OneBeforeZero(primes, m, n) ==
    IF n = 1 THEN SomeU64(m)
    ELSE IF m = 1 THEN SomeU64(n)
    ELSE IF m = 0 /\ n = 0 THEN SomeU64(0)
    ELSE IF m = 0 \/ n = 0 THEN NoU64
    ELSE LET m_factors == of(m, primes)
             n_factors == of(n, primes)
         IN  IF ~ m_factors.some THEN NoU64
             ELSE IF ~ n_factors.some THEN NoU64
             ELSE LET u == union(m_factors.f, n_factors.f)
                  IN  SomeU64(PowerFold(u, DOMAIN u, 1))

\* Primes::lcm(m, n)
lcm(primes, m, n) ==
    IF m = 0 /\ n = 0 THEN SomeU64(0)
    ELSE IF m = 0 \/ n = 0 THEN NoU64
    ELSE IF n = 1 THEN SomeU64(m)
    ELSE IF m = 1 THEN SomeU64(n)
    ELSE LET m_factors == of(m, primes)
             n_factors == of(n, primes)
         IN  IF ~ m_factors.some THEN NoU64
             ELSE IF ~ n_factors.some THEN NoU64
             ELSE LET u == union(m_factors.f, n_factors.f)
                  IN  SomeU64(PowerFold(u, DOMAIN u, 1))

\* Primes::gcd with the arm for 1 tried before the arm for 0.
gcd_OneBeforeZero(primes, m, n) ==
    IF m = 1 \/ n = 1 THEN SomeU64(1)
    ELSE IF m = 0 \/ n = 0 THEN NoU64
    ELSE LET m_factors == of(m, primes)
             n_factors == of(n, primes)
         IN  IF ~ m_factors.some THEN NoU64
             ELSE IF ~ n_factors.some THEN NoU64
             ELSE LET i == intersection(m_factors.f, n_factors.f)
                  IN  SomeU64(PowerFold(i, DOMAIN i, 1))

\* Primes::gcd(m, n)
gcd(primes, m, n) ==
    IF m = 0 \/ n = 0 THEN NoU64
    ELSE IF m = 1 \/ n = 1 THEN SomeU64(1)
    ELSE LET m_factors == of(m, primes)
             n_factors == of(n, primes)
         IN  IF ~ m_factors.some THEN NoU64
             ELSE IF ~ n_factors.some THEN NoU64
             ELSE LET i == intersection(m_factors.f, n_factors.f)
                  IN  SomeU64(PowerFold(i, DOMAIN i, 1))

\* ------------------------------------------------------------------- state

VARIABLES
    built,    \* whether the caller has constructed its Primes value
    primes,   \* the caller's Primes value (the Vec<u64> inside it)
    regs,     \* the caller's two Factors locals "a" and "b"
    call,     \* the last function called, with its arguments
    ret,      \* what that call returned (a u64, an Option<u64> or a bool)
    pair,     \* the results of the latest gcd and lcm calls on one operand pair
    status,   \* "ok", or "panic" once a call has panicked
    build,    \* "debug" (overflow checks on) or "release" (wrapping)
    wrapped,  \* history: some u8 exponent sum of Factors::mul has wrapped
    steps,    \* history: how many times the locals were assigned (when counted)
    frame     \* the running call of Factors::of: its position and its locals

vars == <<built, primes, regs, call, ret, pair, status, build, wrapped, steps,
          frame>>

Locals == {"a", "b"}

\* A local before its first assignment.
Unset == [src |-> "unset", n |-> 0, opt |-> NoFactors]
\* A local assigned Factors::of(n, &primes): `n` remembers the argument.
FromOf(n, opt) == [src |-> "of", n |-> n, opt |-> opt]
\* A local assigned the result of mul, union or intersection.
FromAlgebra(f) == [src |-> "algebra", n |-> 0, opt |-> SomeFactors(f)]

Call(op, x, y, s, t) == [op |-> op, x |-> x, y |-> y, s |-> s, t |-> t]

Unit == [kind |-> "unit", some |-> FALSE, v |-> 0, b |-> FALSE, f |-> EmptyFactors]
RetU64(v) == [Unit EXCEPT !.kind = "u64", !.some = TRUE, !.v = v]
RetOptU64(o) == [Unit EXCEPT !.kind = "option_u64", !.some = o.some, !.v = o.v]
RetBool(b) == [Unit EXCEPT !.kind = "bool", !.some = TRUE, !.b = b]
RetOptFactors(o) == [Unit EXCEPT !.kind = "option_factors", !.some = o.some, !.f = o.f]

\* No call of Factors::of is running.
Idle == [pc |-> "idle", arg |-> 0, n |-> 0, i |-> 0, factors |-> EmptyFactors]

\* No gcd or lcm result is held.
NoPair == [m |-> 0, n |-> 0, hasGcd |-> FALSE, gcd |-> NoU64,
           hasLcm |-> FALSE, lcm |-> NoU64]

\* The caller before it builds its base.  No u8 sum that a caller of Next or
\* NextArith can reach leaves 0..255, so its build makes no difference and
\* is fixed.
Init ==
    /\ built = FALSE
    /\ primes = << >>
    /\ regs = [r \in Locals |-> Unset]
    /\ call = Call("none", 0, 0, "", "")
    /\ ret = Unit
    /\ pair = NoPair
    /\ status = "ok"
    /\ build = "release"
    /\ wrapped = FALSE
    /\ steps = 0
    /\ frame = Idle

\* ----------------------------------------------------------------- actions

\* let primes = Primes::under(limit);   a Primes is built once and is
\* immutable afterwards.
CallUnder(limit) ==
    /\ ~ built
    /\ built' = TRUE
    /\ primes' = under(limit)
    /\ call' = Call("under", limit, 0, "", "")
    /\ ret' = Unit
    /\ UNCHANGED <<regs, pair, status, build, wrapped, steps, frame>>

\* let primes = Primes::first_n(size);
CallFirstN(size) ==
    /\ ~ built
    /\ built' = TRUE
    /\ primes' = first_n(size)
    /\ call' = Call("first_n", size, 0, "", "")
    /\ ret' = Unit
    /\ UNCHANGED <<regs, pair, status, build, wrapped, steps, frame>>

\* let r = Factors::of(n, &primes);
AssignOf(r, n) ==
    /\ built /\ status = "ok"
    /\ regs' = [regs EXCEPT ![r] = FromOf(n, of(n, primes))]
    /\ call' = Call("of", n, 0, r, "")
    /\ ret' = Unit
    /\ pair' = NoPair
    /\ UNCHANGED <<built, primes, status, build, wrapped, frame>>

CallOf(r, n) == AssignOf(r, n) /\ UNCHANGED steps

\* let v: u64 = r.clone().unwrap().into();
CallInto(r) ==
    /\ built /\ status = "ok"
    /\ regs[r].opt.some
    /\ call' = Call("into", 0, 0, r, "")
    /\ ret' = RetU64(into(regs[r].opt.f))
    /\ pair' = NoPair
    /\ UNCHANGED <<built, primes, regs, status, build, wrapped, steps, frame>>

\* let v = r.unwrap().totient();
CallTotient(r) ==
    /\ built /\ status = "ok"
    /\ regs[r].opt.some
    /\ call' = Call("totient", 0, 0, r, "")
    /\ ret' = RetU64(totient(regs[r].opt.f))
    /\ pair' = NoPair
    /\ UNCHANGED <<built, primes, regs, status, build, wrapped, steps, frame>>

\* let v = r.unwrap().divisor_count();
CallDivisorCount(r) ==
    /\ built /\ status = "ok"
    /\ regs[r].opt.some
    /\ call' = Call("divisor_count", 0, 0, r, "")
    /\ ret' = RetU64(divisor_count(regs[r].opt.f))
    /\ pair' = NoPair
    /\ UNCHANGED <<built, primes, regs, status, build, wrapped, steps, frame>>

\* let v = s.unwrap().is_subset(&t.unwrap());   s and t may be the same local
CallIsSubset(s, t) ==
    /\ built /\ status = "ok"
    /\ regs[s].opt.some /\ regs[t].opt.some
    /\ call' = Call("is_subset", 0, 0, s, t)
    /\ ret' = RetBool(is_subset(regs[s].opt.f, regs[t].opt.f))
    /\ pair' = NoPair
    /\ UNCHANGED <<built, primes, regs, status, build, wrapped, steps, frame>>

\* let v = s.unwrap().is_superset(&t.unwrap());
CallIsSuperset(s, t) ==
    /\ built /\ status = "ok"
    /\ regs[s].opt.some /\ regs[t].opt.some
    /\ call' = Call("is_superset", 0, 0, s, t)
    /\ ret' = RetBool(is_superset(regs[s].opt.f, regs[t].opt.f))
    /\ pair' = NoPair
    /\ UNCHANGED <<built, primes, regs, status, build, wrapped, steps, frame>>

\* A caller that builds a base, factorizes integers into its two locals and
\* queries them.
Next ==
    \/ \E limit \in 0..MaxLimit : CallUnder(limit)
    \/ \E size \in 0..MaxCount : CallFirstN(size)
    \/ \E r \in Locals, n \in 0..MaxN : CallOf(r, n)
    \/ \E r \in Locals : CallInto(r)
    \/ \E r \in Locals : CallTotient(r)
    \/ \E r \in Locals : CallDivisorCount(r)
    \/ \E s \in Locals, t \in Locals : CallIsSubset(s, t)
    \/ \E s \in Locals, t \in Locals : CallIsSuperset(s, t)

Spec == Init /\ [][Next]_vars

\* let g = primes.gcd(m, n);
CallGcd(m, n) ==
    /\ built /\ status = "ok"
    /\ LET out == gcd(primes, m, n)
       IN  /\ call' = Call("gcd", m, n, "", "")
           /\ ret' = RetOptU64(out)
           /\ pair' = IF pair.m = m /\ pair.n = n
                      THEN [pair EXCEPT !.hasGcd = TRUE, !.gcd = out]
                      ELSE [NoPair EXCEPT !.m = m, !.n = n,
                                          !.hasGcd = TRUE, !.gcd = out]
    /\ UNCHANGED <<built, primes, regs, status, build, wrapped, steps, frame>>

\* let l = primes.lcm(m, n);
CallLcm(m, n) ==
    /\ built /\ status = "ok"
    /\ LET out == lcm(primes, m, n)
       IN  /\ call' = Call("lcm", m, n, "", "")
           /\ ret' = RetOptU64(out)
           /\ pair' = IF pair.m = m /\ pair.n = n
                      THEN [pair EXCEPT !.hasLcm = TRUE, !.lcm = out]
                      ELSE [NoPair EXCEPT !.m = m, !.n = n,
                                          !.hasLcm = TRUE, !.lcm = out]
    /\ UNCHANGED <<built, primes, regs, status, build, wrapped, steps, frame>>

\* A caller that builds a base and asks it for gcds and lcms.
NextArith ==
    \/ \E limit \in 0..MaxLimit : CallUnder(limit)
    \/ \E size \in 0..MaxCount : CallFirstN(size)
    \/ \E m \in 0..MaxArg, n \in 0..MaxArg : CallGcd(m, n)
    \/ \E m \in 0..MaxArg, n \in 0..MaxArg : CallLcm(m, n)

SpecArith == Init /\ [][NextArith]_vars

\* The caller's build is fixed before it runs.
InitAlgebra ==
    /\ built = FALSE
    /\ primes = << >>
    /\ regs = [r \in Locals |-> Unset]
    /\ call = Call("none", 0, 0, "", "")
    /\ ret = Unit
    /\ pair = NoPair
    /\ status = "ok"
    /\ build \in {"debug", "release"}
    /\ wrapped = FALSE
    /\ steps = 0
    /\ frame = Idle

\* let r = Factors::of(n, &primes);   counted as one assignment
StoreOf(r, n) ==
    /\ steps < MaxSteps
    /\ AssignOf(r, n)
    /\ steps' = steps + 1

\* let d = s.unwrap().mul(&t.unwrap());   d, s and t are any of the locals.
\* A u8 sum that overflows panics in a debug build and wraps in a release one.
StoreMul(d, s, t) ==
    /\ built /\ status = "ok" /\ steps < MaxSteps
    /\ regs[s].opt.some /\ regs[t].opt.some
    /\ call' = Call("mul", 0, 0, s, t)
    /\ ret' = Unit
    /\ pair' = NoPair
    /\ IF build = "debug" /\ mul_overflows(regs[s].opt.f, regs[t].opt.f)
       THEN /\ status' = "panic"
            /\ UNCHANGED <<regs, wrapped, steps>>
       ELSE /\ regs' = [regs EXCEPT
                          ![d] = FromAlgebra(mul(regs[s].opt.f, regs[t].opt.f))]
            /\ wrapped' = (wrapped \/ mul_overflows(regs[s].opt.f, regs[t].opt.f))
            /\ steps' = steps + 1
            /\ UNCHANGED status
    /\ UNCHANGED <<built, primes, build, frame>>

\* let d = s.unwrap().union(&t.unwrap());
StoreUnion(d, s, t) ==
    /\ built /\ status = "ok" /\ steps < MaxSteps
    /\ regs[s].opt.some /\ regs[t].opt.some
    /\ call' = Call("union", 0, 0, s, t)
    /\ ret' = Unit
    /\ pair' = NoPair
    /\ regs' = [regs EXCEPT
                  ![d] = FromAlgebra(union(regs[s].opt.f, regs[t].opt.f))]
    /\ steps' = steps + 1
    /\ UNCHANGED <<built, primes, status, build, wrapped, frame>>

\* let d = s.unwrap().intersection(&t.unwrap());
StoreIntersection(d, s, t) ==
    /\ built /\ status = "ok" /\ steps < MaxSteps
    /\ regs[s].opt.some /\ regs[t].opt.some
    /\ call' = Call("intersection", 0, 0, s, t)
    /\ ret' = Unit
    /\ pair' = NoPair
    /\ regs' = [regs EXCEPT
                  ![d] = FromAlgebra(intersection(regs[s].opt.f, regs[t].opt.f))]
    /\ steps' = steps + 1
    /\ UNCHANGED <<built, primes, status, build, wrapped, frame>>

\* A caller that builds a base, factorizes integers and keeps combining the
\* factorizations it holds.
NextAlgebra ==
    \/ \E limit \in 0..MaxAlgebraLimit : CallUnder(limit)
    \/ \E size \in 0..MaxAlgebraCount : CallFirstN(size)
    \/ \E r \in Locals, n \in (0..MaxAlgebraN) \cup {2 ^ LargeExponent} :
          StoreOf(r, n)
    \/ \E d \in Locals, s \in Locals, t \in Locals : StoreMul(d, s, t)
    \/ \E d \in Locals, s \in Locals, t \in Locals : StoreUnion(d, s, t)
    \/ \E d \in Locals, s \in Locals, t \in Locals : StoreIntersection(d, s, t)

SpecAlgebra == InitAlgebra /\ [][NextAlgebra]_vars

\* ------------------------------------ Factors::of on an unchecked base, by step

\* Every vector of at most MaxRawLen entries in 0..MaxRawEntry.
RawVecs == UNION {[1..len -> 0..MaxRawEntry] : len \in 0..MaxRawLen}

\* let primes = unsafe { Primes::from_raw_vec(v) };
CallFromRawVec(v) ==
    /\ ~ built
    /\ built' = TRUE
    /\ primes' = v
    /\ call' = Call("from_raw_vec", 0, 0, "", "")
    /\ ret' = Unit
    /\ UNCHANGED <<regs, pair, status, build, wrapped, steps, frame>>

\* `n % p == 0`, the condition of the while loop, for p > 0
WhileCondition(n, p) == n % p = 0

\* `n /= p` left out: the loop never changes n.
Quotient_Unchanged(n, p) == n

\* `n /= p`
Quotient(n, p) == n \div p

\* `p > n`, the test that ends the factorization
Certified(p, n) == p > n

\* Factors::of(n, &primes) is entered: `match n`, and for n >= 2 the locals
\* `factors` and `n` before the for loop.
OfEnter(n) ==
    /\ built /\ status = "ok" /\ frame.pc = "idle"
    /\ call' = Call("of", n, 0, "", "")
    /\ pair' = NoPair
    /\ IF n = 0 THEN ret' = RetOptFactors(NoFactors) /\ frame' = Idle
       ELSE IF n = 1 THEN ret' = RetOptFactors(SomeFactors(EmptyFactors))
                          /\ frame' = Idle
       ELSE /\ ret' = Unit
            /\ frame' = [pc |-> "for", arg |-> n, n |-> n, i |-> 1,
                         factors |-> EmptyFactors]
    /\ UNCHANGED <<built, primes, regs, status, build, wrapped, steps>>

\* `for p in &primes.0`: the next prime, or the `None` after the loop.
OfFor ==
    /\ status = "ok" /\ frame.pc = "for"
    /\ IF frame.i > Len(primes)
       THEN ret' = RetOptFactors(NoFactors) /\ frame' = Idle
       ELSE ret' = ret /\ frame' = [frame EXCEPT !.pc = "while"]
    /\ UNCHANGED <<built, primes, regs, call, pair, status, build, wrapped, steps>>

\* `while n % p == 0 { *factors.entry(p).or_insert(0) += 1; n /= p; }`: one
\* test of the condition and, when it holds, one run of the body.  `n % 0`
\* panics; a u8 count that leaves 0..255 panics in a debug build and wraps in
\* a release one.
OfWhile ==
    /\ status = "ok" /\ frame.pc = "while"
    /\ LET p == primes[frame.i]
           count == get(frame.factors, p) + 1
       IN  IF p = 0
           THEN status' = "panic" /\ frame' = frame
           ELSE IF ~ WhileCondition(frame.n, p)
           THEN status' = status /\ frame' = [frame EXCEPT !.pc = "if"]
           ELSE IF count >= U8Size /\ build = "debug"
           THEN status' = "panic" /\ frame' = frame
           ELSE /\ status' = status
                /\ frame' = [frame EXCEPT
                               !.factors = Insert(@, p, count % U8Size),
                               !.n = Quotient(@, p)]
    /\ UNCHANGED <<built, primes, regs, call, ret, pair, build, wrapped, steps>>

\* `if p > n { return Some(Factors(factors)); }`
OfIf ==
    /\ status = "ok" /\ frame.pc = "if"
    /\ IF Certified(primes[frame.i], frame.n)
       THEN ret' = RetOptFactors(SomeFactors(frame.factors)) /\ frame' = Idle
       ELSE ret' = ret /\ frame' = [frame EXCEPT !.pc = "for", !.i = @ + 1]
    /\ UNCHANGED <<built, primes, regs, call, pair, status, build, wrapped, steps>>

\* One step of the running call.
OfStep == OfFor \/ OfWhile \/ OfIf

\* A caller that wraps an arbitrary vector as its base and factorizes
\* integers under it, one call after the other.
NextRaw ==
    \/ \E v \in RawVecs : CallFromRawVec(v)
    \/ \E n \in 0..MaxRawN : OfEnter(n)
    \/ OfFor
    \/ OfWhile
    \/ OfIf

\* The program is sequential: a call that can take a step takes it.
SpecRaw == InitAlgebra /\ [][NextRaw]_vars /\ WF_vars(OfStep)

\* ------------------------------------------------- arithmetic, by definition

Divides(d, n) == n % d = 0

IsPrime(q) == q >= 2 /\ \A d \in 2..(q - 1) : q % d # 0

\* The prime divisors of n >= 1.
PrimeDivisors(n) == {q \in 2..n : IsPrime(q) /\ Divides(q, n)}

\* The exponent of the prime p in n >= 1: the number of powers p, p^2, ...
\* that divide n (the divisors of n that no other prime divides).
Exponent(p, n) ==
    Cardinality({d \in 2..n : Divides(d, n) /\ PrimeDivisors(d) = {p}})

\* The prime factorization of n >= 1 as a map from prime to exponent.
Factorization(n) == [p \in PrimeDivisors(n) |-> Exponent(p, n)]

\* The greatest common divisor of m, n >= 1.
GreatestCommonDivisor(m, n) ==
    CHOOSE d \in 1..m :
        /\ Divides(d, m) /\ Divides(d, n)
        /\ \A e \in 1..m : (Divides(e, m) /\ Divides(e, n)) => e <= d

\* Euler's totient of n >= 1: how many of 1..n are coprime to n.
EulerPhi(n) ==
    Cardinality({k \in 1..n : GreatestCommonDivisor(k, n) = 1})

\* The entries of a base, as a set.
Range(seq) == {seq[i] : i \in 1..Len(seq)}

\* The base holds every prime up to n.
ContainsPrimesUpTo(base, n) == \A q \in 2..n : IsPrime(q) => q \in Range(base)

\* seq lists exactly the members of S, in increasing order.
ListsInOrder(seq, S) ==
    /\ Range(seq) = S
    /\ \A i \in 1..Len(seq), j \in 1..Len(seq) : i < j => seq[i] < seq[j]

\* What is left of n >= 1 once every prime of the base is divided out of it.
FinalRemainder(n, base) ==
    CHOOSE d \in 1..n :
        /\ Divides(d, n)
        /\ \A p \in Range(base) : ~ Divides(p, d)
        /\ \A e \in 1..n :
              (Divides(e, n) /\ \A p \in Range(base) : ~ Divides(p, e)) => e <= d

\* ------------------------------------------------------------------ claims

\* The local the last call was made on, and the one it was given.
Receiver == regs[call.s]
Argument == regs[call.t]

\* C1: for n >= 2 and a base (built by under or first_n) that holds every
\* prime up to n, Factors::of(n, base) returns a factorization, and turning
\* that factorization back into an integer gives n.
C1_RoundTrip ==
    /\ (call.op = "of" /\ call.x >= 2 /\ ContainsPrimesUpTo(primes, call.x))
          => Receiver.opt.some
    /\ (call.op = "into" /\ Receiver.n >= 2
            /\ ContainsPrimesUpTo(primes, Receiver.n))
          => ret.v = Receiver.n

\* 12 = 2^2 * 3 was factorized under a base reaching 11 and converted back.
C1_Witness ==
    /\ call.op = "into"
    /\ Receiver.n = 12
    /\ ContainsPrimesUpTo(primes, 12)
    /\ DOMAIN Receiver.opt.f = {2, 3}

\* C2: is_subset(a, b) is true exactly when every exponent of a is at most
\* b's exponent for that prime (0 when b lacks the prime), which is exactly
\* when the integer of a divides the integer of b; so is_subset(a, a) is
\* true, and so are is_subset(of(2), of(4)) and is_subset(of(2), of(2)).
C2_IsSubsetIsDivisibility ==
    call.op = "is_subset" =>
        /\ ret.b = (\A p \in DOMAIN Receiver.opt.f :
                        Receiver.opt.f[p] <= get(Argument.opt.f, p))
        /\ ret.b = Divides(Receiver.n, Argument.n)

\* C3: Factors::of(n, base) on a base of the first K primes is None for
\* n = 0, the empty factorization for n = 1, and for n >= 2 it is None
\* exactly when the base runs out with its last prime not above the final
\* remainder, which is exactly when n has a prime factor above every prime
\* of the base; otherwise it is the factorization of n.
C3_OfOutcome ==
    call.op = "of" =>
        LET n == call.x
            out == Receiver.opt
        IN  /\ n = 0 => ~ out.some
            /\ n = 1 => out = SomeFactors(EmptyFactors)
            /\ n >= 2 =>
                /\ ~ out.some <=>
                      (\/ Len(primes) = 0
                       \/ primes[Len(primes)] <= FinalRemainder(n, primes))
                /\ ~ out.some <=>
                      (\E q \in PrimeDivisors(n) : \A p \in Range(primes) : q > p)
                /\ out.some => out.f = Factorization(n)

\* One local holds None for 10 under the base [2, 3] while the other holds
\* the factorization of 12 under it.
C3_Witness ==
    /\ call.op = "of"
    /\ primes = <<2, 3>>
    /\ call.x = 10 /\ ~ Receiver.opt.some
    /\ \E r \in Locals : regs[r].n = 12 /\ regs[r].opt.some

\* C4: Primes::under(limit) is exactly the primes strictly below limit, in
\* increasing order, for every limit >= 0; none of its entries is >= limit.
C4_UnderIsPrimesBelow ==
    call.op = "under" =>
        ListsInOrder(primes, {q \in 0..(call.x - 1) : IsPrime(q)})

\* C8: the totient of the empty factorization is 0, and for n >= 2 that the
\* base can factorize, Factors::of(n, base).totient() is Euler's totient of n.
C8_Totient ==
    call.op = "totient" =>
        /\ is_empty(Receiver.opt.f) => ret.v = 0
        /\ Receiver.n >= 2 => ret.v = EulerPhi(Receiver.n)

\* The totient of 12 = 2^2 * 3 was taken.
C8_Witness ==
    /\ call.op = "totient"
    /\ Receiver.n = 12
    /\ Receiver.opt.f = Factorization(12)

\* C5: Primes::gcd(m, n) is None if m = 0 or n = 0, else 1 if m = 1 or
\* n = 1, else None if Factors::of fails on m or on n, else the greatest
\* common divisor of m and n.
C5_Gcd ==
    call.op = "gcd" =>
        LET m == call.x
            n == call.y
        IN  IF m = 0 \/ n = 0 THEN ~ ret.some
            ELSE IF m = 1 \/ n = 1 THEN ret.some /\ ret.v = 1
            ELSE IF ~ of(m, primes).some \/ ~ of(n, primes).some
                 THEN ~ ret.some
            ELSE ret.some /\ ret.v = GreatestCommonDivisor(m, n)

\* gcd(4, 6) was computed from two factorizations under a base that has
\* both 2 and 3.
C5_Witness ==
    /\ call.op = "gcd"
    /\ call.x = 4 /\ call.y = 6
    /\ ret.some /\ ret.v = 2

\* C6: for m, n >= 2 that the base can both factorize, gcd(m, n) and
\* lcm(m, n) both return a result and gcd(m, n) * lcm(m, n) = m * n.
C6_GcdTimesLcm ==
    (/\ pair.hasGcd /\ pair.hasLcm
     /\ pair.m >= 2 /\ pair.n >= 2
     /\ of(pair.m, primes).some /\ of(pair.n, primes).some)
        => /\ pair.gcd.some /\ pair.lcm.some
           /\ pair.gcd.v * pair.lcm.v = pair.m * pair.n

\* Both gcd(4, 6) and lcm(4, 6) were computed under one base.
C6_Witness ==
    /\ pair.hasGcd /\ pair.hasLcm
    /\ pair.m = 4 /\ pair.n = 6
    /\ pair.gcd.some /\ pair.lcm.some

\* C7: Primes::lcm(0, 0) is 0; with exactly one operand 0 it is None; else
\* with an operand 1 it is the other operand, factorizable or not; else it
\* is None exactly when Factors::of fails on m or on n.
C7_LcmPolicy ==
    call.op = "lcm" =>
        LET m == call.x
            n == call.y
        IN  IF m = 0 /\ n = 0 THEN ret.some /\ ret.v = 0
            ELSE IF m = 0 \/ n = 0 THEN ~ ret.some
            ELSE IF n = 1 THEN ret.some /\ ret.v = m
            ELSE IF m = 1 THEN ret.some /\ ret.v = n
            ELSE ~ ret.some <=>
                    (~ of(m, primes).some \/ ~ of(n, primes).some)

\* lcm(1, 7) returned 7 under the base [2, 3], which cannot factorize 7.
C7_Witness ==
    /\ call.op = "lcm"
    /\ call.x = 1 /\ call.y = 7
    /\ primes = <<2, 3>>
    /\ ret.some /\ ret.v = 7

\* Every exponent stored in the caller's locals is strictly positive.
AllExponentsPositive ==
    \A r \in Locals : \A p \in DOMAIN regs[r].opt.f : regs[r].opt.f[p] > 0

Running == frame.pc # "idle"
Returned == frame.pc = "idle" /\ status = "ok"

\* The base has no entry 0 or 1.
EntriesAtLeastTwo == \A i \in 1..Len(primes) : primes[i] >= 2

\* C9 as stated: under a base wrapped by from_raw_vec around any sequence
\* of integers (0 and 1 included), Factors::of never panics and always
\* returns: a factorization or None.
C9_NeverCrashesAlwaysReturns ==
    /\ [](status # "panic")
    /\ (Running ~> Returned)

\* C9 amended: the same for every sequence of integers that are all >= 2
\* (non-primes, out of order and duplicates included).
C9_SafeWhenEntriesAtLeastTwo ==
    /\ [](EntriesAtLeastTwo => status # "panic")
    /\ ((Running /\ EntriesAtLeastTwo) ~> Returned)

\* Factors::of(4) has returned under the base [4, 2]: out of order and with
\* a non-prime, which it reports as the factor 4^1.
C9_Witness ==
    /\ primes = <<4, 2>>
    /\ call.op = "of" /\ call.x = 4
    /\ Returned
    /\ ret.kind = "option_factors" /\ ret.some
    /\ DOMAIN ret.f = {4}

\* On a base whose entries are all >= 2, the call that returns by steps
\* returns what `of` computes at once.
StepsAgreeWithOf ==
    (call.op = "of" /\ Returned /\ EntriesAtLeastTwo)
        => ret = RetOptFactors(of(call.x, primes))

====
